---------------------------- MODULE Spec2Model ----------------------------
(***************************************************************************)
(* Sales analytics system: the record parser and validator/filter of       *)
(* src/utils/file_handler.py, the aggregation engine of                    *)
(* src/utils/data_processor.py, the report statistics of                   *)
(* src/utils/api_handler.py and the driver of src/main.py.                 *)
(*                                                                         *)
(* Text is a sequence of one-character strings, so that split, strip,      *)
(* replace, lower, startswith, int() and float() are computed on the       *)
(* characters.  A Python float is carried as an exact count of thousandths *)
(* (10.0 is 10000); float('nan') is carried as the reserved value NaN, and *)
(* every comparison on a float goes through FLt/FGt/FLe, which are false   *)
(* on NaN as in IEEE-754.  round(x, 2) is Round2.                          *)
(***************************************************************************)
EXTENDS Integers, Sequences, FiniteSets, TLC

VARIABLES
    pc,             \* position of the driver / of the caller of the core
    raw_lines,      \* main.py: sales_data, the lines read_sales_data returned
    transactions,   \* main.py: transactions (parser output or hand-built)
    region,         \* validate_and_filter argument (None when absent)
    min_amount,     \* validate_and_filter argument (None when absent)
    max_amount,     \* validate_and_filter argument (None when absent)
    filtered_txns,  \* main.py: filtered_txns
    invalid_count,  \* main.py: invalid_count
    summary,        \* main.py: summary (the filter_summary dictionary)
    result,         \* value returned by the aggregation / report call made
    error,          \* exception raised by a call, "none" when none
    products,       \* main.py: products, what fetch_all_products returned
    product_map,    \* main.py: product_map
    enriched_transactions,  \* main.py: enriched_transactions
    enriched_file,  \* the rows of data/enriched_sales_data.txt
    report          \* the statistics written to output/sales_report.txt

\* the state of steps 6 to 9 of the driver
apiVars == <<products, product_map, enriched_transactions, enriched_file, report>>

vars == <<pc, raw_lines, transactions, region, min_amount, max_amount,
          filtered_txns, invalid_count, summary, result, error, apiVars>>

\* an optional argument: None, or Some(x) for a supplied value x
None == [some |-> FALSE]
Some(x) == [some |-> TRUE, v |-> x]

\* before step 6 nothing is fetched, mapped, enriched or written
ApiUnset ==
    /\ products = None
    /\ product_map = None
    /\ enriched_transactions = None
    /\ enriched_file = None
    /\ report = None

-----------------------------------------------------------------------------
(* Bounds *)

MaxLines == 2       \* lines in the file read by the driver
MaxTxns == 3        \* records in a hand-built collection
MaxN == 3           \* largest n passed to top_selling_products

-----------------------------------------------------------------------------
(* Python str operations on character sequences *)

IsSpace(c) == c = " "

RECURSIVE lstrip(_)
lstrip(s) == IF s # <<>> /\ IsSpace(Head(s)) THEN lstrip(Tail(s)) ELSE s

RECURSIVE rstrip(_)
rstrip(s) ==
    IF s # <<>> /\ IsSpace(s[Len(s)]) THEN rstrip(SubSeq(s, 1, Len(s) - 1))
    ELSE s

strip(s) == rstrip(lstrip(s))

\* s.replace(old, new) for a one-character old and any text new
RECURSIVE replace(_, _, _)
replace(s, old, new) ==
    IF s = <<>> THEN <<>>
    ELSE IF Head(s) = old THEN new \o replace(Tail(s), old, new)
    ELSE <<Head(s)>> \o replace(Tail(s), old, new)

\* s.split(sep): always at least one field, empty fields are kept
RECURSIVE split(_, _)
split(s, sep) ==
    IF \A i \in 1..Len(s) : s[i] # sep THEN <<s>>
    ELSE LET k == CHOOSE i \in 1..Len(s) :
                      s[i] = sep /\ \A j \in 1..(i - 1) : s[j] # sep
         IN <<SubSeq(s, 1, k - 1)>> \o split(SubSeq(s, k + 1, Len(s)), sep)

\* sep.join(parts)
RECURSIVE join(_, _)
join(sep, parts) ==
    IF parts = <<>> THEN <<>>
    ELSE IF Len(parts) = 1 THEN parts[1]
    ELSE parts[1] \o <<sep>> \o join(sep, Tail(parts))

startswith(s, c) == s # <<>> /\ Head(s) = c

Upper == <<"A","B","C","D","E","F","G","H","I","J","K","L","M",
           "N","O","P","Q","R","S","T","U","V","W","X","Y","Z">>
Lower == <<"a","b","c","d","e","f","g","h","i","j","k","l","m",
           "n","o","p","q","r","s","t","u","v","w","x","y","z">>

lowerChar(c) ==
    IF \E i \in 1..26 : Upper[i] = c
    THEN Lower[CHOOSE i \in 1..26 : Upper[i] = c]
    ELSE c

lower(s) == [i \in 1..Len(s) |-> lowerChar(s[i])]

Digits == <<"0","1","2","3","4","5","6","7","8","9">>

IsDigit(c) == \E i \in 1..10 : Digits[i] = c

DigitVal(c) == (CHOOSE i \in 1..10 : Digits[i] = c) - 1

AllDigits(s) == \A i \in 1..Len(s) : IsDigit(s[i])

RECURSIVE DecVal(_)
DecVal(s) ==
    IF s = <<>> THEN 0
    ELSE DecVal(SubSeq(s, 1, Len(s) - 1)) * 10 + DigitVal(s[Len(s)])

\* the characters of the model in code-point order
Ascii == <<" ", "+", ",", "-", ".", "/">> \o Digits \o Upper \o Lower \o <<"|">>

Ord(c) == CHOOSE i \in 1..Len(Ascii) : Ascii[i] = c

\* s < t on str: code points, a proper prefix is smaller
RECURSIVE StrLess(_, _)
StrLess(s, t) ==
    IF t = <<>> THEN FALSE
    ELSE IF s = <<>> THEN TRUE
    ELSE IF Head(s) = Head(t) THEN StrLess(Tail(s), Tail(t))
    ELSE Ord(Head(s)) < Ord(Head(t))

-----------------------------------------------------------------------------
(* Python numbers *)

Scale == 1000                 \* a float is a count of thousandths
NaN == 0 - 999999999          \* float('nan')

IsNaN(x) == x = NaN

FLt(a, b) == ~IsNaN(a) /\ ~IsNaN(b) /\ a < b
FGt(a, b) == ~IsNaN(a) /\ ~IsNaN(b) /\ a > b
FLe(a, b) == ~IsNaN(a) /\ ~IsNaN(b) /\ a <= b

\* int * float
FMul(q, p) == IF IsNaN(p) THEN NaN ELSE q * p

NoSign(s) == IF s # <<>> /\ Head(s) \in {"-", "+"} THEN Tail(s) ELSE s
Sign(s) == IF s # <<>> /\ Head(s) = "-" THEN 0 - 1 ELSE 1

\* int(text): ok is FALSE where Python raises ValueError
PyInt(text) ==
    LET s == strip(text)
        d == NoSign(s)
    IN IF d # <<>> /\ AllDigits(d)
       THEN [ok |-> TRUE, val |-> Sign(s) * DecVal(d)]
       ELSE [ok |-> FALSE, val |-> 0]

Pad3(f) == SubSeq(f \o <<"0", "0", "0">>, 1, 3)

\* float(text): decimal numerals with at most three decimals, and 'nan'
PyFloat(text) ==
    LET s == strip(text)
        d == NoSign(s)
        parts == split(d, ".")
    IN IF lower(d) = <<"n", "a", "n">> THEN [ok |-> TRUE, val |-> NaN]
       ELSE IF Len(parts) = 1 /\ d # <<>> /\ AllDigits(d)
       THEN [ok |-> TRUE, val |-> Sign(s) * DecVal(d) * Scale]
       ELSE IF /\ Len(parts) = 2
               /\ AllDigits(parts[1]) /\ AllDigits(parts[2])
               /\ parts[1] \o parts[2] # <<>>
       THEN [ok |-> TRUE,
             val |-> Sign(s) * (DecVal(parts[1]) * Scale + DecVal(Pad3(parts[2])))]
       ELSE [ok |-> FALSE, val |-> 0]

\* round(x, 2) of a non-negative float: nearest hundredth, ties to even
Round2(x) ==
    IF IsNaN(x) THEN NaN
    ELSE LET q == x \div 10
             r == x % 10
         IN IF r < 5 THEN q * 10
            ELSE IF r > 5 THEN (q + 1) * 10
            ELSE IF q % 2 = 0 THEN q * 10 ELSE (q + 1) * 10


-----------------------------------------------------------------------------
(* Record Parser: file_handler.parse_transactions *)

\* fields of a line after the strip / replace cleaning of lines 77-97
CleanFields(fields) ==
    [transaction_id |-> strip(fields[1]),
     date           |-> strip(fields[2]),
     product_id     |-> strip(fields[3]),
     product_name   |-> strip(replace(fields[4], ",", <<" ">>)),
     quantity       |-> PyInt(strip(replace(fields[5], ",", <<>>))),
     unit_price     |-> PyFloat(strip(replace(fields[6], ",", <<>>))),
     customer_id    |-> strip(fields[7]),
     region         |-> strip(fields[8])]

\* line 63: the field count the parser accepts
FieldCountOk(fields) == Len(fields) = 8

\* line 93: INVALID: missing mandatory fields
MandatoryPresent(c) == ~(c.customer_id = <<>> \/ c.region = <<>>)

\* lines 99-105: both conversions succeed
NumericOk(c) == c.quantity.ok /\ c.unit_price.ok

\* mutant: the parser tests only the quantity
NonPositive_QuantityOnly(quantity, unit_price) == quantity <= 0

\* line 108: if quantity <= 0 or unit_price <= 0: continue
NonPositive(quantity, unit_price) == quantity <= 0 \/ FLe(unit_price, 0)

\* the line is emitted as a record
LineAccepted(line) ==
    LET fields == split(line, "|")
    IN /\ FieldCountOk(fields)
       /\ LET c == CleanFields(fields)
          IN /\ MandatoryPresent(c)
             /\ NumericOk(c)
             /\ ~NonPositive(c.quantity.val, c.unit_price.val)

\* lines 112-121: the record built from an accepted line
LineRecord(line) ==
    LET c == CleanFields(split(line, "|"))
    IN [TransactionID |-> c.transaction_id,
        Date          |-> c.date,
        ProductID     |-> c.product_id,
        ProductName   |-> c.product_name,
        Quantity      |-> c.quantity.val,
        UnitPrice     |-> c.unit_price.val,
        CustomerID    |-> c.customer_id,
        Region        |-> c.region]

RECURSIVE parse_transactions(_)
parse_transactions(lines) ==
    IF lines = <<>> THEN <<>>
    ELSE (IF LineAccepted(Head(lines)) THEN <<LineRecord(Head(lines))>> ELSE <<>>)
         \o parse_transactions(Tail(lines))

-----------------------------------------------------------------------------
(* Record Validator / Filter: file_handler.validate_and_filter *)

required_fields ==
    {"TransactionID", "Date", "ProductID", "ProductName",
     "Quantity", "UnitPrice", "CustomerID", "Region"}

\* line 150
HasRequiredFields(txn) == \A f \in required_fields : f \in DOMAIN txn

\* mutant: the product id prefix is not checked
IdFormatOk_NoProductCheck(txn) ==
    /\ startswith(txn.TransactionID, "T")
    /\ startswith(txn.CustomerID, "C")

\* lines 155-159
IdFormatOk(txn) ==
    /\ startswith(txn.TransactionID, "T")
    /\ startswith(txn.ProductID, "P")
    /\ startswith(txn.CustomerID, "C")

\* line 164
QuantityPriceBad(txn) == txn.Quantity <= 0 \/ FLe(txn.UnitPrice, 0)

\* a record reaches valid_transactions (line 168)
PassesValidation(txn) ==
    /\ HasRequiredFields(txn)
    /\ IdFormatOk(txn)
    /\ ~QuantityPriceBad(txn)

Amount(t) == FMul(t.Quantity, t.UnitPrice)

\* line 182
RegionKeeps(t, rgn) == lower(t.Region) = rgn.v

\* lines 192-199
AmountKeeps(t, lo, hi) ==
    /\ ~(lo.some /\ FLt(Amount(t), lo.v))
    /\ ~(hi.some /\ FGt(Amount(t), hi.v))

\* lines 141-168: valid_transactions and the number of records counted invalid
valid_transactions(txns) == SelectSeq(txns, PassesValidation)

CountInvalid(txns) == Len(txns) - Len(valid_transactions(txns))

\* lines 176-184
AfterRegion(valid, rgn) ==
    IF rgn.some THEN SelectSeq(valid, LAMBDA t : RegionKeeps(t, rgn)) ELSE valid

\* lines 187-202
AfterAmount(kept, lo, hi) ==
    IF lo.some \/ hi.some
    THEN SelectSeq(kept, LAMBDA t : AmountKeeps(t, lo, hi))
    ELSE kept

\* mutant: the amount filter's count is taken against the validated records
\* rather than against the survivors of the region filter
FilterSummary_AmountFromValid(txns, rgn, lo, hi) ==
    LET valid == valid_transactions(txns)
        byRegion == AfterRegion(valid, rgn)
        byAmount == AfterAmount(byRegion, lo, hi)
    IN [total_input        |-> Len(txns),
        invalid            |-> CountInvalid(txns),
        filtered_by_region |-> IF rgn.some THEN Len(valid) - Len(byRegion) ELSE 0,
        filtered_by_amount |-> IF lo.some \/ hi.some
                               THEN Len(valid) - Len(AfterAmount(valid, lo, hi)) ELSE 0,
        final_count        |-> Len(byAmount)]

\* lines 207-213
FilterSummary(txns, rgn, lo, hi) ==
    LET valid == valid_transactions(txns)
        byRegion == AfterRegion(valid, rgn)
        byAmount == AfterAmount(byRegion, lo, hi)
    IN [total_input        |-> Len(txns),
        invalid            |-> CountInvalid(txns),
        filtered_by_region |-> IF rgn.some THEN Len(valid) - Len(byRegion) ELSE 0,
        filtered_by_amount |-> IF lo.some \/ hi.some
                               THEN Len(byRegion) - Len(byAmount) ELSE 0,
        final_count        |-> Len(byAmount)]

validate_and_filter(txns, rgn, lo, hi) ==
    [filtered_transactions |->
         AfterAmount(AfterRegion(valid_transactions(txns), rgn), lo, hi),
     invalid_count  |-> CountInvalid(txns),
     filter_summary |-> FilterSummary(txns, rgn, lo, hi)]


-----------------------------------------------------------------------------
(* The lines a sales file may hold (read_sales_data returns them stripped, *)
(* without the header and without blank lines)                             *)

\* T1|2024-01-01|P101|Widget|5|10.0|C1|North
LineGood ==
    join("|",
        <<<<"T", "1">>,
          <<"2", "0", "2", "4", "-", "0", "1", "-", "0", "1">>,
          <<"P", "1", "0", "1">>,
          <<"W", "i", "d", "g", "e", "t">>,
          <<"5">>,
          <<"1", "0", ".", "0">>,
          <<"C", "1">>,
          <<"N", "o", "r", "t", "h">>>>)

\* surrounding blanks and thousands separators
LineDirty ==
    join("|",
        <<<<" ", "T", "2", " ">>,
          <<"2", "0", "2", "4", "-", "0", "1", "-", "0", "2">>,
          <<" ", "P", "2", " ">>,
          <<"G", "a", "d", ",", "g", "e", "t">>,
          <<" ", "1", ",", "0", " ">>,
          <<"1", ",", "0", "0", "0", ".", "5">>,
          <<" ", "C", "2", " ">>,
          <<" ", "s", "o", "u", "t", "h", " ">>>>)

\* quantity 0
LineZeroQty ==
    join("|",
        <<<<"T", "1">>,
          <<"2", "0", "2", "4", "-", "0", "1", "-", "0", "1">>,
          <<"P", "1", "0", "1">>,
          <<"W", "i", "d", "g", "e", "t">>,
          <<"0">>,
          <<"1", "0", ".", "0">>,
          <<"C", "1">>,
          <<"N", "o", "r", "t", "h">>>>)

\* negative unit price
LineNegPrice ==
    join("|",
        <<<<"T", "1">>,
          <<"2", "0", "2", "4", "-", "0", "1", "-", "0", "1">>,
          <<"P", "1", "0", "1">>,
          <<"W", "i", "d", "g", "e", "t">>,
          <<"5">>,
          <<"-", "1", ".", "0">>,
          <<"C", "1">>,
          <<"N", "o", "r", "t", "h">>>>)

\* seven fields
LineShort ==
    join("|",
        <<<<"T", "1">>,
          <<"2", "0", "2", "4", "-", "0", "1", "-", "0", "1">>,
          <<"P", "1", "0", "1">>,
          <<"W", "i", "d", "g", "e", "t">>,
          <<"5">>,
          <<"1", "0", ".", "0">>,
          <<"C", "1">>>>)

\* nine fields
LineLong ==
    join("|",
        <<<<"T", "1">>,
          <<"2", "0", "2", "4", "-", "0", "1", "-", "0", "1">>,
          <<"P", "1", "0", "1">>,
          <<"W", "i", "d", "g", "e", "t">>,
          <<"5">>,
          <<"1", "0", ".", "0">>,
          <<"C", "1">>,
          <<"N", "o", "r", "t", "h">>,
          <<"x">>>>)

\* blank customer id
LineNoCustomer ==
    join("|",
        <<<<"T", "1">>,
          <<"2", "0", "2", "4", "-", "0", "1", "-", "0", "1">>,
          <<"P", "1", "0", "1">>,
          <<"W", "i", "d", "g", "e", "t">>,
          <<"5">>,
          <<"1", "0", ".", "0">>,
          <<" ", " ">>,
          <<"N", "o", "r", "t", "h">>>>)

\* empty region
LineNoRegion ==
    join("|",
        <<<<"T", "1">>,
          <<"2", "0", "2", "4", "-", "0", "1", "-", "0", "1">>,
          <<"P", "1", "0", "1">>,
          <<"W", "i", "d", "g", "e", "t">>,
          <<"5">>,
          <<"1", "0", ".", "0">>,
          <<"C", "1">>,
          <<>>>>)

\* quantity that is no integer
LineBadQty ==
    join("|",
        <<<<"T", "1">>,
          <<"2", "0", "2", "4", "-", "0", "1", "-", "0", "1">>,
          <<"P", "1", "0", "1">>,
          <<"W", "i", "d", "g", "e", "t">>,
          <<"5", ".", "0">>,
          <<"1", "0", ".", "0">>,
          <<"C", "1">>,
          <<"N", "o", "r", "t", "h">>>>)

\* unit price that is no number
LineBadPrice ==
    join("|",
        <<<<"T", "1">>,
          <<"2", "0", "2", "4", "-", "0", "1", "-", "0", "1">>,
          <<"P", "1", "0", "1">>,
          <<"W", "i", "d", "g", "e", "t">>,
          <<"5">>,
          <<"t", "e", "n">>,
          <<"C", "1">>,
          <<"N", "o", "r", "t", "h">>>>)

\* unit price spelled nan
LineNanPrice ==
    join("|",
        <<<<"T", "1">>,
          <<"2", "0", "2", "4", "-", "0", "1", "-", "0", "1">>,
          <<"P", "1", "0", "1">>,
          <<"W", "i", "d", "g", "e", "t">>,
          <<"5">>,
          <<"n", "a", "n">>,
          <<"C", "1">>,
          <<"N", "o", "r", "t", "h">>>>)

\* transaction id without its T
LineBadPrefix ==
    join("|",
        <<<<"X", "1">>,
          <<"2", "0", "2", "4", "-", "0", "1", "-", "0", "1">>,
          <<"P", "1", "0", "1">>,
          <<"W", "i", "d", "g", "e", "t">>,
          <<"5">>,
          <<"1", "0", ".", "0">>,
          <<"C", "1">>,
          <<"N", "o", "r", "t", "h">>>>)

\* empty date and product name
LineNoDate ==
    join("|",
        <<<<"T", "3">>,
          <<>>,
          <<"P", "1", "0", "1">>,
          <<>>,
          <<"2">>,
          <<"1", "0", ".", "0">>,
          <<"C", "1">>,
          <<"N", "o", "r", "t", "h">>>>)

\* date not in YYYY-MM-DD form
LineBadDate ==
    join("|",
        <<<<"T", "4">>,
          <<"0", "1", "/", "0", "2", "/", "2", "0", "2", "4">>,
          <<"P", "1", "0", "1">>,
          <<"W", "i", "d", "g", "e", "t">>,
          <<"5">>,
          <<"1", "0", ".", "0">>,
          <<"C", "2">>,
          <<"S", "o", "u", "t", "h">>>>)

LineSet ==
    {LineGood,
     LineDirty,
     LineZeroQty,
     LineNegPrice,
     LineShort,
     LineLong,
     LineNoCustomer,
     LineNoRegion,
     LineBadQty,
     LineBadPrice,
     LineNanPrice,
     LineBadPrefix,
     LineNoDate,
     LineBadDate}

\* all sequences over S of length at most n
RECURSIVE SeqsUpTo(_, _)
SeqsUpTo(S, n) ==
    IF n = 0 THEN {<<>>}
    ELSE LET shorter == SeqsUpTo(S, n - 1)
         IN shorter \cup {Append(q, x) : q \in {r \in shorter : Len(r) = n - 1}, x \in S}

-----------------------------------------------------------------------------
(* Python list / dict helpers.  A dict is the sequence of its items in     *)
(* insertion order, which is the order Python iterates it in.              *)

Has(t, fields) == fields \subseteq DOMAIN t

\* index of the item whose field k is key, 0 when there is none
IndexOf(items, k, key) ==
    IF \E i \in 1..Len(items) : items[i][k] = key
    THEN CHOOSE i \in 1..Len(items) : items[i][k] = key
    ELSE 0

\* list.sort / sorted on a list shorter than 64: the order of the list is a
\* sequence of indices into keys; the only comparison made is key < key,
\* which is false when either key is NaN
Reverse(s) == [i \in 1..Len(s) |-> s[Len(s) + 1 - i]]

\* the first run is descending: its second key is less than its first
RunDescending(keys, order) ==
    Len(order) >= 2 /\ FLt(keys[order[2]], keys[order[1]])

\* length of the run that starts the list, n of its elements being counted
RECURSIVE count_run(_, _, _, _)
count_run(keys, order, descending, n) ==
    IF n >= Len(order) THEN n
    ELSE IF FLt(keys[order[n + 1]], keys[order[n]]) = descending
    THEN count_run(keys, order, descending, n + 1)
    ELSE n

\* the place of the pivot among order[l..r-1], found by bisection
RECURSIVE Bisect(_, _, _, _, _)
Bisect(keys, order, pivot, l, r) ==
    IF l >= r THEN l
    ELSE LET p == l + ((r - l) \div 2)
         IN IF FLt(keys[pivot], keys[order[p]])
            THEN Bisect(keys, order, pivot, l, p)
            ELSE Bisect(keys, order, pivot, p + 1, r)

\* binary insertion of order[start..] into the sorted prefix before it
RECURSIVE binarysort(_, _, _)
binarysort(keys, order, start) ==
    IF start > Len(order) THEN order
    ELSE LET pivot == order[start]
             l == Bisect(keys, order, pivot, 1, start)
         IN binarysort(keys,
                SubSeq(order, 1, l - 1) \o <<pivot>> \o SubSeq(order, l, start - 1)
                    \o SubSeq(order, start + 1, Len(order)),
                start + 1)

\* the indices of keys in sorted order; reverse sorts the reversed list and
\* reverses the result, which keeps equal keys in their original order
listsort(keys, reverse) ==
    LET n == Len(keys)
        order == IF reverse THEN Reverse([i \in 1..n |-> i]) ELSE [i \in 1..n |-> i]
        descending == RunDescending(keys, order)
        run == IF n < 2 THEN n ELSE count_run(keys, order, descending, 2)
        first == IF descending
                 THEN Reverse(SubSeq(order, 1, run)) \o SubSeq(order, run + 1, n)
                 ELSE order
        sorted == binarysort(keys, first, run + 1)
    IN IF reverse THEN Reverse(sorted) ELSE sorted

\* sorted(items, key=..., reverse=True), keys[i] being the key of items[i]
SortedDesc(items, keys) ==
    LET order == listsort(keys, TRUE)
    IN [k \in 1..Len(items) |-> items[order[k]]]

\* sorted(items, key=...), keys[i] being the key of items[i]
SortedAsc(items, keys) ==
    LET order == listsort(keys, FALSE)
    IN [k \in 1..Len(items) |-> items[order[k]]]

\* the values of one field of a sequence of items
Column(items, k) == [i \in 1..Len(items) |-> items[i][k]]

\* items[:n]
Slice(items, n) ==
    IF n >= 0
    THEN SubSeq(items, 1, IF n < Len(items) THEN n ELSE Len(items))
    ELSE SubSeq(items, 1, Len(items) + n)

FAdd(a, b) == IF IsNaN(a) \/ IsNaN(b) THEN NaN ELSE a + b

\* num / den rounded to the nearest integer, ties to even (num >= 0, den > 0)
RoundDiv(num, den) ==
    LET q == num \div den
        r == num % den
    IN IF 2 * r < den THEN q
       ELSE IF 2 * r > den THEN q + 1
       ELSE IF q % 2 = 0 THEN q ELSE q + 1

-----------------------------------------------------------------------------
(* Aggregation Engine: data_processor *)

RECURSIVE calculate_total_revenue(_)
calculate_total_revenue(txns) ==
    IF txns = <<>> THEN 0
    ELSE LET t == Head(txns)
             rest == calculate_total_revenue(Tail(txns))
         IN IF Has(t, {"Quantity", "UnitPrice"}) THEN FAdd(Amount(t), rest) ELSE rest

\* lines 32-48: region_stats; a record missing a field is skipped
RECURSIVE RegionStats(_, _)
RegionStats(txns, stats) ==
    IF txns = <<>> THEN stats
    ELSE LET t == Head(txns)
         IN IF ~Has(t, {"Region", "Quantity", "UnitPrice"})
            THEN RegionStats(Tail(txns), stats)
            ELSE LET i == IndexOf(stats, "region", t.Region)
                     base == IF i = 0
                             THEN Append(stats, [region |-> t.Region,
                                                 total_sales |-> 0,
                                                 transaction_count |-> 0])
                             ELSE stats
                     j == IF i = 0 THEN Len(base) ELSE i
                 IN RegionStats(Tail(txns),
                        [base EXCEPT ![j].total_sales = FAdd(@, Amount(t)),
                                     ![j].transaction_count = @ + 1])

\* mutant: grand_total grows only with the first record of a region
GrandTotal_NewRegionsOnly(txns) ==
    LET firsts == {i \in 1..Len(txns) :
                      \A j \in 1..(i - 1) : txns[j].Region # txns[i].Region}
        pick[i \in 0..Len(txns)] ==
            IF i = 0 THEN 0
            ELSE IF i \in firsts THEN FAdd(pick[i - 1], Amount(txns[i]))
            ELSE pick[i - 1]
    IN pick[Len(txns)]

\* line 39: grand_total, over the records that are not skipped
RECURSIVE GrandTotal(_)
GrandTotal(txns) ==
    IF txns = <<>> THEN 0
    ELSE IF Has(Head(txns), {"Region", "Quantity", "UnitPrice"})
    THEN FAdd(Amount(Head(txns)), GrandTotal(Tail(txns)))
    ELSE GrandTotal(Tail(txns))

\* lines 53-59: percentage, in hundredths of a percent: total_sales * 10000
\* / grand_total to the nearest integer, ties to even, divided in two steps
\* of 100 so that no intermediate product leaves the integer range
Percentage(total_sales, grand_total) ==
    IF FGt(grand_total, 0)
    THEN LET x == total_sales * 100
             y == (x % grand_total) * 100
             q == (x \div grand_total) * 100 + y \div grand_total
             r == y % grand_total
         IN IF 2 * r < grand_total THEN q
            ELSE IF 2 * r > grand_total THEN q + 1
            ELSE IF q % 2 = 0 THEN q ELSE q + 1
    ELSE 0

\* lines 64-70: the order of the returned mapping
RegionOrder(stats) == SortedDesc(stats, Column(stats, "total_sales"))

region_wise_sales(txns) ==
    LET stats == RegionStats(txns, <<>>)
        grand_total == GrandTotal(txns)
        withPct == [i \in 1..Len(stats) |->
                      [region            |-> stats[i].region,
                       total_sales       |-> stats[i].total_sales,
                       transaction_count |-> stats[i].transaction_count,
                       percentage        |-> Percentage(stats[i].total_sales,
                                                        grand_total)]]
    IN RegionOrder(withPct)

\* lines 87-102 (and 294-309): product_stats
RECURSIVE ProductStats(_, _)
ProductStats(txns, stats) ==
    IF txns = <<>> THEN stats
    ELSE LET t == Head(txns)
         IN IF ~Has(t, {"ProductName", "Quantity", "UnitPrice"})
            THEN ProductStats(Tail(txns), stats)
            ELSE LET i == IndexOf(stats, "name", t.ProductName)
                     base == IF i = 0
                             THEN Append(stats, [name |-> t.ProductName,
                                                 total_quantity |-> 0,
                                                 total_revenue |-> 0])
                             ELSE stats
                     j == IF i = 0 THEN Len(base) ELSE i
                 IN ProductStats(Tail(txns),
                        [base EXCEPT ![j].total_quantity = @ + t.Quantity,
                                     ![j].total_revenue = FAdd(@, Amount(t))])

\* lines 107-111
ProductOrder(stats) == SortedDesc(stats, Column(stats, "total_quantity"))

\* lines 118-125: (product, total_quantity, round(total_revenue, 2))
ProductTuple(e) == <<e.name, e.total_quantity, Round2(e.total_revenue)>>

\* mutant: one entry too many
TopSlice_OffByOne(sorted_products, n) == Slice(sorted_products, n + 1)

\* line 118: sorted_products[:n]
TopSlice(sorted_products, n) == Slice(sorted_products, n)

top_selling_products(txns, n) ==
    LET picked == TopSlice(ProductOrder(ProductStats(txns, <<>>)), n)
    IN [i \in 1..Len(picked) |-> ProductTuple(picked[i])]

\* mutant: a total equal to the threshold counts as low
IsLowPerformer_Inclusive(e, threshold) == e.total_quantity <= threshold

\* line 317
IsLowPerformer(e, threshold) == e.total_quantity < threshold

low_performing_products(txns, threshold) ==
    LET stats == ProductStats(txns, <<>>)
        low == SelectSeq(stats, LAMBDA e : IsLowPerformer(e, threshold))
        tuples == [i \in 1..Len(low) |-> ProductTuple(low[i])]
    IN SortedAsc(tuples, Column(tuples, 2))

\* lines 250-264: daily_sales
RECURSIVE DailySales(_, _)
DailySales(txns, stats) ==
    IF txns = <<>> THEN stats
    ELSE LET t == Head(txns)
         IN IF ~Has(t, {"Date", "Quantity", "UnitPrice"})
            THEN DailySales(Tail(txns), stats)
            ELSE LET i == IndexOf(stats, "date", t.Date)
                     base == IF i = 0
                             THEN Append(stats, [date |-> t.Date,
                                                 revenue |-> 0,
                                                 transaction_count |-> 0])
                             ELSE stats
                     j == IF i = 0 THEN Len(base) ELSE i
                 IN DailySales(Tail(txns),
                        [base EXCEPT ![j].revenue = FAdd(@, Amount(t)),
                                     ![j].transaction_count = @ + 1])

\* lines 273-277: one iteration of the peak loop
PeakStep(peak, e) ==
    IF FGt(e.revenue, peak.revenue)
    THEN [date |-> Some(e.date),
          revenue |-> Round2(e.revenue),
          transaction_count |-> e.transaction_count]
    ELSE peak

RECURSIVE PeakLoop(_, _)
PeakLoop(daily, peak) ==
    IF daily = <<>> THEN peak
    ELSE PeakLoop(Tail(daily), PeakStep(peak, Head(daily)))

\* returns (peak_date, peak_revenue, peak_count)
find_peak_sales_day(txns) ==
    PeakLoop(DailySales(txns, <<>>),
             [date |-> None, revenue |-> 0, transaction_count |-> 0])

\* lines 141-158: customer_stats
RECURSIVE CustomerStats(_, _)
CustomerStats(txns, stats) ==
    IF txns = <<>> THEN stats
    ELSE LET t == Head(txns)
         IN IF ~Has(t, {"CustomerID", "ProductName", "Quantity", "UnitPrice"})
            THEN CustomerStats(Tail(txns), stats)
            ELSE LET i == IndexOf(stats, "customer_id", t.CustomerID)
                     base == IF i = 0
                             THEN Append(stats, [customer_id |-> t.CustomerID,
                                                 total_spent |-> 0,
                                                 purchase_count |-> 0,
                                                 products_bought |-> {}])
                             ELSE stats
                     j == IF i = 0 THEN Len(base) ELSE i
                 IN CustomerStats(Tail(txns),
                        [base EXCEPT ![j].total_spent = FAdd(@, Amount(t)),
                                     ![j].purchase_count = @ + 1,
                                     ![j].products_bought = @ \cup {t.ProductName}])

\* sorted(set of str)
SortedStrings(S) ==
    [k \in 1..Cardinality(S) |->
        CHOOSE x \in S : Cardinality({y \in S : StrLess(y, x)}) = k - 1]

\* lines 163-171
CustomerEntry(e) ==
    [customer_id     |-> e.customer_id,
     total_spent     |-> Round2(e.total_spent),
     purchase_count  |-> e.purchase_count,
     avg_order_value |-> IF e.purchase_count > 0
                         THEN IF IsNaN(e.total_spent) THEN NaN
                              ELSE 10 * RoundDiv(e.total_spent, 10 * e.purchase_count)
                         ELSE 0,
     products_bought |-> SortedStrings(e.products_bought)]

customer_analysis(txns) ==
    LET stats == CustomerStats(txns, <<>>)
        entries == [i \in 1..Len(stats) |-> CustomerEntry(stats[i])]
    IN SortedDesc(entries, Column(entries, "total_spent"))

\* datetime.strptime(s, "%Y-%m-%d") succeeds
IsLeap(y) == (y % 4 = 0 /\ y % 100 # 0) \/ y % 400 = 0

DaysIn(y, m) ==
    IF m = 2 THEN (IF IsLeap(y) THEN 29 ELSE 28)
    ELSE IF m \in {4, 6, 9, 11} THEN 30 ELSE 31

StrptimeOk(s) ==
    LET p == split(s, "-")
    IN /\ Len(p) = 3
       /\ Len(p[1]) = 4 /\ AllDigits(p[1]) /\ DecVal(p[1]) >= 1
       /\ Len(p[2]) \in 1..2 /\ AllDigits(p[2]) /\ DecVal(p[2]) \in 1..12
       /\ Len(p[3]) \in 1..2 /\ AllDigits(p[3])
       /\ DecVal(p[3]) \in 1..DaysIn(DecVal(p[1]), DecVal(p[2]))

\* the datetime of a date text, as an ordinal that orders like datetime
DateOrdinal(s) ==
    LET p == split(s, "-")
    IN DecVal(p[1]) * 10000 + DecVal(p[2]) * 100 + DecVal(p[3])

\* lines 200-217: daily_stats
RECURSIVE DailyStats(_, _)
DailyStats(txns, stats) ==
    IF txns = <<>> THEN stats
    ELSE LET t == Head(txns)
         IN IF ~Has(t, {"Date", "CustomerID", "Quantity", "UnitPrice"})
            THEN DailyStats(Tail(txns), stats)
            ELSE LET i == IndexOf(stats, "date", t.Date)
                     base == IF i = 0
                             THEN Append(stats, [date |-> t.Date,
                                                 revenue |-> 0,
                                                 transaction_count |-> 0,
                                                 unique_customers |-> {}])
                             ELSE stats
                     j == IF i = 0 THEN Len(base) ELSE i
                 IN DailyStats(Tail(txns),
                        [base EXCEPT ![j].revenue = FAdd(@, Amount(t)),
                                     ![j].transaction_count = @ + 1,
                                     ![j].unique_customers = @ \cup {t.CustomerID}])

\* line 232: the sort key raises ValueError on a date strptime rejects
DailyTrendRaises(txns) ==
    LET stats == DailyStats(txns, <<>>)
    IN \E i \in 1..Len(stats) : ~StrptimeOk(stats[i].date)

\* lines 222-236, when no key raises
daily_sales_trend(txns) ==
    LET stats == DailyStats(txns, <<>>)
        entries == [i \in 1..Len(stats) |->
                      [date              |-> stats[i].date,
                       revenue           |-> Round2(stats[i].revenue),
                       transaction_count |-> stats[i].transaction_count,
                       unique_customers  |-> Cardinality(stats[i].unique_customers)]]
    IN SortedAsc(entries, [i \in 1..Len(entries) |-> DateOrdinal(entries[i].date)])

-----------------------------------------------------------------------------
(* Report Renderer: the statistics api_handler.generate_sales_report       *)
(* computes for itself before it writes the file                           *)

\* lines 170-184: region_summary
ReportRegionSummary(txns) ==
    LET stats == RegionStats(txns, <<>>)
    IN SortedDesc(stats, Column(stats, "total_sales"))

\* lines 189-199: top_products
ReportTopProducts(txns) ==
    LET stats == ProductStats(txns, <<>>)
    IN Slice(SortedDesc(stats, Column(stats, "total_quantity")), 5)

\* line 226: daily_summary = sorted(daily_stats.items()), keys are distinct
ReportDailySummary(txns) ==
    LET stats == DailyStats(txns, <<>>)
        n == Len(stats)
        pos(i) == 1 + Cardinality({j \in 1..n : StrLess(stats[j].date, stats[i].date)})
    IN [k \in 1..n |-> stats[CHOOSE i \in 1..n : pos(i) = k]]

\* max(items, key=revenue): an item replaces the maximum so far only when
\* its key is greater
RECURSIVE MaxByRevenue(_, _)
MaxByRevenue(items, best) ==
    IF items = <<>> THEN best
    ELSE MaxByRevenue(Tail(items),
                      IF FGt(Head(items).revenue, best.revenue) THEN Head(items) ELSE best)

\* lines 231-235: peak_day = max(daily_summary, key=revenue)
ReportPeakDay(txns) ==
    LET daily == ReportDailySummary(txns)
    IN IF daily = <<>> THEN None
       ELSE Some(MaxByRevenue(Tail(daily), Head(daily)).date)

\* lines 240-245: low_products
ReportLowProducts(txns) ==
    LET stats == ProductStats(txns, <<>>)
        low == SelectSeq(stats, LAMBDA e : e.total_quantity < 10)
    IN SortedAsc(low, Column(low, "total_quantity"))

\* line 153: nothing is computed for an empty collection
generate_sales_report(txns) ==
    IF txns = <<>> THEN [written |-> FALSE]
    ELSE [written        |-> TRUE,
          total_revenue  |-> calculate_total_revenue(txns),
          region_summary |-> ReportRegionSummary(txns),
          top_products   |-> ReportTopProducts(txns),
          peak_day       |-> ReportPeakDay(txns),
          low_products   |-> ReportLowProducts(txns)]

-----------------------------------------------------------------------------
(* Enrichment Adapter: api_handler.create_product_mapping,                 *)
(* enrich_sales_data and save_enriched_data.  A value that can be None is  *)
(* None or Some(value).                                                    *)

\* d.get(k) on a product dictionary
Get(d, k) == IF k \in DOMAIN d THEN d[k] ELSE None

\* lines 57-62: the item stored for a product
MappingItem(product) ==
    [key  |-> product.id,
     info |-> [title    |-> Get(product, "title"),
               category |-> Get(product, "category"),
               brand    |-> Get(product, "brand"),
               rating   |-> Get(product, "rating")]]

\* lines 51-62: a product without "id" is skipped, a repeated id overwrites
RECURSIVE ProductMapping(_, _)
ProductMapping(api_products, mapping) ==
    IF api_products = <<>> THEN mapping
    ELSE LET product == Head(api_products)
         IN IF "id" \notin DOMAIN product
            THEN ProductMapping(Tail(api_products), mapping)
            ELSE LET item == MappingItem(product)
                     i == IndexOf(mapping, "key", item.key)
                 IN ProductMapping(Tail(api_products),
                        IF i = 0 THEN Append(mapping, item)
                        ELSE [mapping EXCEPT ![i] = item])

create_product_mapping(api_products) == ProductMapping(api_products, <<>>)

ApiFields == {"API_Category", "API_Brand", "API_Rating", "API_Match"}

\* lines 77-80 and 92-95: the record with its four API fields assigned
WithApi(txn, category, brand, rating, match) ==
    [f \in DOMAIN txn \cup ApiFields |->
        IF f = "API_Category" THEN category
        ELSE IF f = "API_Brand" THEN brand
        ELSE IF f = "API_Rating" THEN rating
        ELSE IF f = "API_Match" THEN match
        ELSE txn[f]]

\* lines 84-89: the index in the mapping of the record's product, 0 when the
\* id text is rejected (int raises ValueError) or is not a key
MappingIndex(txn, product_mapping) ==
    LET product_id_str == IF "ProductID" \in DOMAIN txn
                          THEN strip(txn.ProductID) ELSE <<>>
        numeric_id == PyInt(Tail(product_id_str))
    IN IF startswith(product_id_str, "P") /\ numeric_id.ok
       THEN IndexOf(product_mapping, "key", Some(numeric_id.val))
       ELSE 0

\* lines 74-101: the enriched copy of one record
EnrichedTxn(txn, product_mapping) ==
    LET i == MappingIndex(txn, product_mapping)
    IN IF i = 0 THEN WithApi(txn, None, None, None, FALSE)
       ELSE LET api_info == product_mapping[i].info
            IN WithApi(txn, api_info.category, api_info.brand,
                       api_info.rating, TRUE)

\* line 74: enriched_txn = txn.copy(): the assignments go to the copy, the
\* input record keeps its fields
Original(txn, enriched_txn) == txn

\* lines 71-106: the list returned, and the input list after the call
enrich_sales_data(txns, product_mapping) ==
    LET enriched == [i \in 1..Len(txns) |-> EnrichedTxn(txns[i], product_mapping)]
    IN [enriched_transactions |-> enriched,
        transactions |-> [i \in 1..Len(txns) |-> Original(txns[i], enriched[i])]]

\* str(n) of an int
RECURSIVE StrNat(_)
StrNat(n) ==
    IF n < 10 THEN <<Digits[n + 1]>> ELSE StrNat(n \div 10) \o <<Digits[(n % 10) + 1]>>

StrInt(n) == IF n < 0 THEN <<"-">> \o StrNat(0 - n) ELSE StrNat(n)

\* the decimals of a float, without the trailing zeros but at least one
RECURSIVE Decimals(_)
Decimals(d) ==
    IF Len(d) > 1 /\ d[Len(d)] = "0" THEN Decimals(SubSeq(d, 1, Len(d) - 1)) ELSE d

\* str(x) of a float
StrFloat(x) ==
    IF IsNaN(x) THEN <<"n", "a", "n">>
    ELSE LET a == IF x < 0 THEN 0 - x ELSE x
             frac == a % Scale
             d == <<Digits[(frac \div 100) + 1], Digits[((frac \div 10) % 10) + 1],
                    Digits[(frac % 10) + 1]>>
         IN (IF x < 0 THEN <<"-">> ELSE <<>>) \o StrNat(a \div Scale) \o <<".">>
                \o Decimals(d)

headers ==
    <<"TransactionID", "Date", "ProductID", "ProductName", "Quantity", "UnitPrice",
      "CustomerID", "Region", "API_Category", "API_Brand", "API_Rating", "API_Match">>

\* lines 128-133: the text of one field of a row
Cell(txn, field) ==
    IF field \notin DOMAIN txn THEN <<>>
    ELSE IF field = "Quantity" THEN StrInt(txn[field])
    ELSE IF field = "UnitPrice" THEN StrFloat(txn[field])
    ELSE IF field = "API_Match"
         THEN (IF txn[field] THEN <<"T", "r", "u", "e">> ELSE <<"F", "a", "l", "s", "e">>)
    ELSE IF field = "API_Rating"
         THEN (IF txn[field].some THEN StrFloat(txn[field].v) ELSE <<>>)
    ELSE IF field \in {"API_Category", "API_Brand"}
         THEN (IF txn[field].some THEN txn[field].v ELSE <<>>)
    ELSE txn[field]

\* lines 122-135: the columns of the header line, and one line per record
save_enriched_data(enriched) ==
    [header |-> headers,
     rows   |-> [i \in 1..Len(enriched) |->
                   join("|", [k \in 1..Len(headers) |-> Cell(enriched[i], headers[k])])]]

-----------------------------------------------------------------------------
(* Inputs *)

\* hand-built records: 5 x 10.0 in North
TxnNorth ==
    [TransactionID |-> <<"T", "1">>,
     Date          |-> <<"2", "0", "2", "4", "-", "0", "1", "-", "0", "1">>,
     ProductID     |-> <<"P", "1", "0", "1">>,
     ProductName   |-> <<"W", "i", "d", "g", "e", "t">>,
     Quantity      |-> 5,
     UnitPrice     |-> 10000,
     CustomerID    |-> <<"C", "1">>,
     Region        |-> <<"N", "o", "r", "t", "h">>]

\* 2 x 10.0 in South
TxnSouth ==
    [TransactionID |-> <<"T", "2">>,
     Date          |-> <<"2", "0", "2", "4", "-", "0", "1", "-", "0", "2">>,
     ProductID     |-> <<"P", "1", "0", "2">>,
     ProductName   |-> <<"G", "a", "d", "g", "e", "t">>,
     Quantity      |-> 2,
     UnitPrice     |-> 10000,
     CustomerID    |-> <<"C", "2">>,
     Region        |-> <<"S", "o", "u", "t", "h">>]

\* 10 x 10.0 in NORTH
TxnUpper ==
    [TransactionID |-> <<"T", "3">>,
     Date          |-> <<"2", "0", "2", "4", "-", "0", "1", "-", "0", "3">>,
     ProductID     |-> <<"P", "1", "0", "3">>,
     ProductName   |-> <<"G", "i", "z", "m", "o">>,
     Quantity      |-> 10,
     UnitPrice     |-> 10000,
     CustomerID    |-> <<"C", "1">>,
     Region        |-> <<"N", "O", "R", "T", "H">>]

\* hand-built records: three the validator keeps, then the ones it must
\* reject (no Region key, a wrong prefix in each id, a zero quantity, a
\* negative price)
HandBuilt ==
    {TxnNorth, TxnSouth, TxnUpper,
     [f \in required_fields \ {"Region"} |-> TxnNorth[f]],
     [TxnNorth EXCEPT !.TransactionID = <<"X", "9">>],
     [TxnSouth EXCEPT !.ProductID = <<"1", "0", "1">>],
     [TxnNorth EXCEPT !.CustomerID = <<>>],
     [TxnSouth EXCEPT !.Quantity = 0],
     [TxnNorth EXCEPT !.UnitPrice = 0 - 1000]}

\* validated records for the engine: 50.0 on 2024-01-02
SaleA ==
    [TransactionID |-> <<"T", "1">>,
     Date          |-> <<"2", "0", "2", "4", "-", "0", "1", "-", "0", "2">>,
     ProductID     |-> <<"P", "1", "0", "1">>,
     ProductName   |-> <<"W", "i", "d", "g", "e", "t">>,
     Quantity      |-> 5,
     UnitPrice     |-> 10000,
     CustomerID    |-> <<"C", "1">>,
     Region        |-> <<"N", "o", "r", "t", "h">>]

\* 50.0 on 2024-01-01: ties SaleA in revenue and quantity
SaleB ==
    [TransactionID |-> <<"T", "2">>,
     Date          |-> <<"2", "0", "2", "4", "-", "0", "1", "-", "0", "1">>,
     ProductID     |-> <<"P", "1", "0", "2">>,
     ProductName   |-> <<"G", "a", "d", "g", "e", "t">>,
     Quantity      |-> 5,
     UnitPrice     |-> 10000,
     CustomerID    |-> <<"C", "2">>,
     Region        |-> <<"S", "o", "u", "t", "h">>]

\* 30.0 on 2024-01-02 by C1
SaleC ==
    [TransactionID |-> <<"T", "3">>,
     Date          |-> <<"2", "0", "2", "4", "-", "0", "1", "-", "0", "2">>,
     ProductID     |-> <<"P", "1", "0", "1">>,
     ProductName   |-> <<"W", "i", "d", "g", "e", "t">>,
     Quantity      |-> 3,
     UnitPrice     |-> 10000,
     CustomerID    |-> <<"C", "1">>,
     Region        |-> <<"N", "o", "r", "t", "h">>]

\* 70.0 on 2024-01-02 by C2
SaleD ==
    [TransactionID |-> <<"T", "4">>,
     Date          |-> <<"2", "0", "2", "4", "-", "0", "1", "-", "0", "2">>,
     ProductID     |-> <<"P", "1", "0", "2">>,
     ProductName   |-> <<"G", "a", "d", "g", "e", "t">>,
     Quantity      |-> 7,
     UnitPrice     |-> 10000,
     CustomerID    |-> <<"C", "2">>,
     Region        |-> <<"S", "o", "u", "t", "h">>]

\* 1.004 on 2024-01-03
SaleE ==
    [TransactionID |-> <<"T", "5">>,
     Date          |-> <<"2", "0", "2", "4", "-", "0", "1", "-", "0", "3">>,
     ProductID     |-> <<"P", "1", "0", "3">>,
     ProductName   |-> <<"G", "i", "z", "m", "o">>,
     Quantity      |-> 1,
     UnitPrice     |-> 1004,
     CustomerID    |-> <<"C", "1">>,
     Region        |-> <<"E", "a", "s", "t">>]

\* 1.002 on 2024-01-01
SaleF ==
    [TransactionID |-> <<"T", "6">>,
     Date          |-> <<"2", "0", "2", "4", "-", "0", "1", "-", "0", "1">>,
     ProductID     |-> <<"P", "1", "0", "4">>,
     ProductName   |-> <<"D", "o", "o", "d", "a", "d">>,
     Quantity      |-> 1,
     UnitPrice     |-> 1002,
     CustomerID    |-> <<"C", "2">>,
     Region        |-> <<"W", "e", "s", "t">>]

\* a price of float('nan') on 2024-01-04, as the parser emits for "nan"
SaleN ==
    [TransactionID |-> <<"T", "7">>,
     Date          |-> <<"2", "0", "2", "4", "-", "0", "1", "-", "0", "4">>,
     ProductID     |-> <<"P", "1", "0", "3">>,
     ProductName   |-> <<"G", "i", "z", "m", "o">>,
     Quantity      |-> 1,
     UnitPrice     |-> NaN,
     CustomerID    |-> <<"C", "3">>,
     Region        |-> <<"E", "a", "s", "t">>]

\* a date that is not YYYY-MM-DD, which the parser and the validator keep
SaleBadDate ==
    [TransactionID |-> <<"T", "4">>,
     Date          |-> <<"0", "1", "/", "0", "2", "/", "2", "0", "2", "4">>,
     ProductID     |-> <<"P", "1", "0", "1">>,
     ProductName   |-> <<"W", "i", "d", "g", "e", "t">>,
     Quantity      |-> 5,
     UnitPrice     |-> 10000,
     CustomerID    |-> <<"C", "2">>,
     Region        |-> <<"S", "o", "u", "t", "h">>]

Sales ==
    {t \in {SaleA, SaleB, SaleC, SaleD, SaleE, SaleF, SaleN, SaleBadDate} :
        PassesValidation(t)}

\* records whose ProductID does or does not name a product of the catalog
ToEnrich ==
    {TxnNorth,                                                  \* "P101"
     [TxnNorth EXCEPT !.ProductID = <<"P", "1", "0", "2">>],
     [TxnNorth EXCEPT !.ProductID = <<"P", "9", "9", "9">>],
     [TxnNorth EXCEPT !.ProductID = <<"P", "0", "1", "0", "1">>],
     [TxnNorth EXCEPT !.ProductID = <<"X", "1", "0", "1">>],
     [TxnNorth EXCEPT !.ProductID = <<"P">>],
     [TxnNorth EXCEPT !.ProductID = <<"P", "1", "0", "x">>],
     [TxnNorth EXCEPT !.ProductID = <<"P", "+", "1", "0", "1">>],
     [TxnNorth EXCEPT !.ProductID = <<"P", " ", "1", "0", "1">>],
     [f \in required_fields \ {"ProductID"} |-> TxnNorth[f]]}  \* no ProductID

\* products as fetch_all_products returns them (lines 24-31)
ProductEssence ==
    [id       |-> Some(101),
     title    |-> Some(<<"M", "a", "s", "c", "a", "r", "a">>),
     category |-> Some(<<"b", "e", "a", "u", "t", "y">>),
     brand    |-> Some(<<"E", "s", "s", "e", "n", "c", "e">>),
     price    |-> Some(9990),
     rating   |-> Some(4940)]

\* what the catalog service answers; the empty list is also what
\* fetch_all_products returns when the request fails (lines 35-38)
\* the second product is listed without a brand
Catalogs ==
    {<<>>,
     <<ProductEssence>>,
     <<ProductEssence,
       [id       |-> Some(102),
        title    |-> Some(<<"A", "p", "p", "l", "e">>),
        category |-> Some(<<"g", "r", "o", "c", "e", "r", "i", "e", "s">>),
        brand    |-> None,
        price    |-> Some(1990),
        rating   |-> Some(2960)]>>}

\* arguments a caller passes
RegionArgs == {None, Some(<<"n", "o", "r", "t", "h">>), Some(<<"s", "o", "u", "t", "h">>)}
AmountArgs == {None, Some(50000)}
ThresholdArgs == {5, 10}

-----------------------------------------------------------------------------
(* The driver: main.main *)

Init ==
    /\ pc = "read"
    /\ raw_lines = <<>>
    /\ transactions = <<>>
    /\ region = None
    /\ min_amount = None
    /\ max_amount = None
    /\ filtered_txns = <<>>
    /\ invalid_count = 0
    /\ summary = None
    /\ result = None
    /\ error = "none"
    /\ ApiUnset

\* [1/10] sales_data = read_sales_data(data_file)
ReadSalesData ==
    /\ pc = "read"
    /\ \E ls \in SeqsUpTo(LineSet, MaxLines) : raw_lines' = ls
    /\ pc' = "parse"
    /\ UNCHANGED <<apiVars, transactions, region, min_amount, max_amount, filtered_txns,
                   invalid_count, summary, result, error>>

\* [2/10] transactions = parse_transactions(sales_data)
ParseTransactions ==
    /\ pc = "parse"
    /\ transactions' = parse_transactions(raw_lines)
    /\ pc' = "ask"
    /\ UNCHANGED <<apiVars, raw_lines, region, min_amount, max_amount, filtered_txns,
                   invalid_count, summary, result, error>>

\* [3/10] the operator answers the filter prompts
AskFilters ==
    /\ pc = "ask"
    /\ \E rgn \in RegionArgs, lo \in AmountArgs, hi \in AmountArgs :
          /\ region' = rgn
          /\ min_amount' = lo
          /\ max_amount' = hi
    /\ pc' = "validate"
    /\ UNCHANGED <<apiVars, raw_lines, transactions, filtered_txns, invalid_count,
                   summary, result, error>>

\* [4/10] filtered_txns, invalid_count, summary = validate_and_filter(...)
ValidateAndFilter ==
    /\ pc = "validate"
    /\ LET r == validate_and_filter(transactions, region, min_amount, max_amount)
       IN /\ filtered_txns' = r.filtered_transactions
          /\ invalid_count' = r.invalid_count
          /\ summary' = r.filter_summary
    /\ pc' = "analyse"
    /\ UNCHANGED <<apiVars, raw_lines, transactions, region, min_amount, max_amount,
                   result, error>>

\* [5/10] the seven aggregations in turn; daily_sales_trend is the one that
\* can raise, and main's except clause ends the run
AnalyseSales ==
    /\ pc = "analyse"
    /\ IF DailyTrendRaises(filtered_txns)
       THEN pc' = "failed" /\ error' = "ValueError"
       ELSE pc' = "fetch" /\ error' = error
    /\ UNCHANGED <<apiVars, raw_lines, transactions, region, min_amount, max_amount,
                   filtered_txns, invalid_count, summary, result>>

\* mutant: the driver goes on to the mapping with an empty product list
FetchAllProducts_NoAbort ==
    /\ pc = "fetch"
    /\ \E catalog \in Catalogs :
          /\ products' = Some(catalog)
          /\ pc' = "mapping"
    /\ UNCHANGED <<raw_lines, transactions, region, min_amount, max_amount,
                   filtered_txns, invalid_count, summary, result, error,
                   product_map, enriched_transactions, enriched_file, report>>

\* [6/10] products = fetch_all_products(): the products of the catalog, the
\* empty list when the request fails (api_handler lines 35-38), or an
\* exception the function does not catch (a body that is not an object,
\* line 17), which main's except clause turns into the end of the run;
\* with no products main returns (lines 166-168)
FetchAllProducts ==
    /\ pc = "fetch"
    /\ \/ \E catalog \in Catalogs :
             /\ products' = Some(catalog)
             /\ pc' = IF catalog = <<>> THEN "done" ELSE "mapping"
             /\ error' = error
       \/ /\ products' = products
          /\ pc' = "failed"
          /\ error' = "AttributeError"
    /\ UNCHANGED <<raw_lines, transactions, region, min_amount, max_amount,
                   filtered_txns, invalid_count, summary, result,
                   product_map, enriched_transactions, enriched_file, report>>

\* [7/10] product_map = create_product_mapping(products)
CreateProductMapping ==
    /\ pc = "mapping"
    /\ product_map' = Some(create_product_mapping(products.v))
    /\ pc' = "enrich"
    /\ UNCHANGED <<raw_lines, transactions, region, min_amount, max_amount,
                   filtered_txns, invalid_count, summary, result, error,
                   products, enriched_transactions, enriched_file, report>>

\* [7/10] enriched_transactions = enrich_sales_data(filtered_txns, product_map);
\* the call saves the file itself (line 104), and a failure to write it is
\* caught inside save_enriched_data (lines 140-142)
EnrichSalesData ==
    /\ pc = "enrich"
    /\ LET r == enrich_sales_data(filtered_txns, product_map.v)
       IN /\ enriched_transactions' = Some(r.enriched_transactions)
          /\ filtered_txns' = r.transactions
          /\ result' = [call |-> "enrich_sales_data", arg |-> filtered_txns,
                        value |-> r.enriched_transactions]
          /\ \E written \in BOOLEAN :
                enriched_file' = IF written
                                 THEN Some(save_enriched_data(r.enriched_transactions))
                                 ELSE enriched_file
    /\ pc' = "report"
    /\ UNCHANGED <<raw_lines, transactions, region, min_amount, max_amount,
                   invalid_count, summary, error, products, product_map, report>>

\* [9/10] generate_sales_report(filtered_txns, enriched_transactions): with
\* no transactions it returns before it opens the file; otherwise a failure
\* to open output/sales_report.txt (line 261) reaches main's except clause
GenerateSalesReport ==
    /\ pc = "report"
    /\ \/ /\ report' = Some(generate_sales_report(filtered_txns))
          /\ pc' = "done"
          /\ error' = error
       \/ /\ filtered_txns # <<>>
          /\ report' = report
          /\ pc' = "failed"
          /\ error' = "OSError"
    /\ UNCHANGED <<raw_lines, transactions, region, min_amount, max_amount,
                   filtered_txns, invalid_count, summary, result,
                   products, product_map, enriched_transactions, enriched_file>>

Next ==
    \/ ReadSalesData
    \/ ParseTransactions
    \/ AskFilters
    \/ ValidateAndFilter
    \/ AnalyseSales
    \/ FetchAllProducts
    \/ CreateProductMapping
    \/ EnrichSalesData
    \/ GenerateSalesReport

Spec == Init /\ [][Next]_vars

-----------------------------------------------------------------------------
(* A caller of validate_and_filter with hand-built records *)

InitHandBuilt ==
    /\ pc = "ask"
    /\ raw_lines = <<>>
    /\ transactions \in SeqsUpTo(HandBuilt, MaxTxns)
    /\ region = None
    /\ min_amount = None
    /\ max_amount = None
    /\ filtered_txns = <<>>
    /\ invalid_count = 0
    /\ summary = None
    /\ result = None
    /\ error = "none"
    /\ ApiUnset

NextValidate ==
    \/ AskFilters
    \/ ValidateAndFilter

SpecValidate == InitHandBuilt /\ [][NextValidate]_vars

-----------------------------------------------------------------------------
(* A caller of the Aggregation Engine and of the Report Renderer on a      *)
(* validated collection                                                    *)

InitEngine ==
    /\ pc = "engine"
    /\ raw_lines = <<>>
    /\ transactions = <<>>
    /\ region = None
    /\ min_amount = None
    /\ max_amount = None
    /\ filtered_txns \in SeqsUpTo(Sales, MaxTxns)
    /\ invalid_count = 0
    /\ summary = None
    /\ result = None
    /\ error = "none"
    /\ ApiUnset

\* mutant: the call consumes the collection it was given
Return_ConsumesInput(call, arg, value) ==
    /\ pc = "engine"
    /\ result' = [call |-> call, arg |-> arg, value |-> value]
    /\ pc' = "returned"
    /\ filtered_txns' = <<>>
    /\ UNCHANGED <<apiVars, raw_lines, transactions, region, min_amount, max_amount,
                   invalid_count, summary, error>>

\* a call that returns: no statement of the seven functions, of
\* validate_and_filter or of the report statistics assigns to the list it
\* is given or to a record of it
Return(call, arg, value) ==
    /\ pc = "engine"
    /\ result' = [call |-> call, arg |-> arg, value |-> value]
    /\ pc' = "returned"
    /\ UNCHANGED <<apiVars, raw_lines, transactions, region, min_amount, max_amount,
                   filtered_txns, invalid_count, summary, error>>

CallTotalRevenue ==
    Return("calculate_total_revenue", 0, calculate_total_revenue(filtered_txns))

CallRegionWiseSales ==
    Return("region_wise_sales", 0, region_wise_sales(filtered_txns))

CallTopSellingProducts ==
    \E n \in 0..MaxN :
        Return("top_selling_products", n, top_selling_products(filtered_txns, n))

CallCustomerAnalysis ==
    Return("customer_analysis", 0, customer_analysis(filtered_txns))

CallDailySalesTrend ==
    /\ pc = "engine"
    /\ IF DailyTrendRaises(filtered_txns)
       THEN /\ error' = "ValueError"
            /\ result' = [call |-> "daily_sales_trend", arg |-> 0, value |-> None]
       ELSE /\ error' = error
            /\ result' = [call |-> "daily_sales_trend", arg |-> 0,
                          value |-> daily_sales_trend(filtered_txns)]
    /\ pc' = "returned"
    /\ UNCHANGED <<apiVars, raw_lines, transactions, region, min_amount, max_amount,
                   filtered_txns, invalid_count, summary>>

CallFindPeakSalesDay ==
    Return("find_peak_sales_day", 0, find_peak_sales_day(filtered_txns))

CallLowPerformingProducts ==
    \E threshold \in ThresholdArgs :
        Return("low_performing_products", threshold,
               low_performing_products(filtered_txns, threshold))

CallGenerateSalesReport ==
    Return("generate_sales_report", 0, generate_sales_report(filtered_txns))

NextEngine ==
    \/ CallTotalRevenue
    \/ CallRegionWiseSales
    \/ CallTopSellingProducts
    \/ CallCustomerAnalysis
    \/ CallDailySalesTrend
    \/ CallFindPeakSalesDay
    \/ CallLowPerformingProducts
    \/ CallGenerateSalesReport

SpecEngine == InitEngine /\ [][NextEngine]_vars

-----------------------------------------------------------------------------
(* A caller that makes a call of the core on a validated collection and    *)
(* then makes the same call again on the same collection                   *)

CallValidateAndFilter ==
    \E rgn \in RegionArgs, lo \in AmountArgs :
        Return("validate_and_filter", [region |-> rgn, min_amount |-> lo],
               validate_and_filter(filtered_txns, rgn, lo, None))

\* the value the call returns on txns, None when it raises
CallValue(call, arg, txns) ==
    CASE call = "calculate_total_revenue" -> calculate_total_revenue(txns)
      [] call = "region_wise_sales" -> region_wise_sales(txns)
      [] call = "top_selling_products" -> top_selling_products(txns, arg)
      [] call = "customer_analysis" -> customer_analysis(txns)
      [] call = "daily_sales_trend" ->
             IF DailyTrendRaises(txns) THEN None ELSE daily_sales_trend(txns)
      [] call = "find_peak_sales_day" -> find_peak_sales_day(txns)
      [] call = "low_performing_products" -> low_performing_products(txns, arg)
      [] call = "generate_sales_report" -> generate_sales_report(txns)
      [] call = "validate_and_filter" ->
             validate_and_filter(txns, arg.region, arg.min_amount, None)

\* the same call with the same arguments on the collection as it is now;
\* first keeps what the call returned the first time
RepeatCall ==
    /\ pc = "returned"
    /\ result' = [call  |-> result.call,
                  arg   |-> result.arg,
                  value |-> CallValue(result.call, result.arg, filtered_txns),
                  first |-> result.value]
    /\ pc' = "repeated"
    /\ UNCHANGED <<apiVars, raw_lines, transactions, region, min_amount, max_amount,
                   filtered_txns, invalid_count, summary, error>>

NextRepeat ==
    \/ NextEngine
    \/ CallValidateAndFilter
    \/ RepeatCall

SpecRepeat == InitEngine /\ [][NextRepeat]_vars

-----------------------------------------------------------------------------
(* A caller of enrich_sales_data with hand-built records and a mapping *)

InitEnrich ==
    /\ pc = "enrich"
    /\ raw_lines = <<>>
    /\ transactions = <<>>
    /\ region = None
    /\ min_amount = None
    /\ max_amount = None
    /\ filtered_txns \in SeqsUpTo(ToEnrich, MaxTxns)
    /\ invalid_count = 0
    /\ summary = None
    /\ result = None
    /\ error = "none"
    /\ products = None
    /\ product_map \in {Some(create_product_mapping(c)) : c \in Catalogs}
    /\ enriched_transactions = None
    /\ enriched_file = None
    /\ report = None

NextEnrich == EnrichSalesData

SpecEnrich == InitEnrich /\ [][NextEnrich]_vars

-----------------------------------------------------------------------------
(* Properties *)

Validated == pc \in {"analyse", "fetch", "failed"}
Parsed == pc \notin {"read", "parse"}

NonEmpty(x) == x # <<>>

\* C1: parsing, validating and aggregating any lines never raises: no run
\* of the driver records an exception.
C1_NeverRaises == error = "none"

\* C2: every record validate_and_filter returns for parser output has
\* Quantity > 0 and UnitPrice > 0, its six text fields non-empty, and the
\* id prefixes T, P and C.
C2_ValidatedWellFormed ==
    Validated =>
        \A i \in 1..Len(filtered_txns) :
            LET t == filtered_txns[i]
            IN /\ t.Quantity > 0
               /\ FGt(t.UnitPrice, 0)
               /\ NonEmpty(t.TransactionID) /\ NonEmpty(t.Date)
               /\ NonEmpty(t.ProductID) /\ NonEmpty(t.ProductName)
               /\ NonEmpty(t.CustomerID) /\ NonEmpty(t.Region)
               /\ Head(t.TransactionID) = "T"
               /\ Head(t.ProductID) = "P"
               /\ Head(t.CustomerID) = "C"

\* the condition C3 states for a line to be emitted
C3_Qualifies(line) ==
    LET f == split(line, "|")
    IN /\ Len(f) = 8
       /\ strip(f[7]) # <<>>
       /\ strip(f[8]) # <<>>
       /\ PyInt(replace(f[5], ",", <<>>)).ok
       /\ PyFloat(replace(f[6], ",", <<>>)).ok
       /\ PyInt(replace(f[5], ",", <<>>)).val > 0
       /\ FGt(PyFloat(replace(f[6], ",", <<>>)).val, 0)

\* C3: the parser emits a record for a line if and only if the line has 8
\* fields, customer id and region are non-empty, quantity and unit price
\* convert and are > 0; records carry all 8 fields and keep the line order.
C3_ParserEmitsIff ==
    Parsed /\ raw_lines # <<>> =>
        LET kept == SelectSeq(raw_lines, C3_Qualifies)
        IN /\ Len(transactions) = Len(kept)
           /\ \A i \in 1..Len(kept) :
                 /\ DOMAIN transactions[i] = required_fields
                 /\ transactions[i] = LineRecord(kept[i])

\* the condition C4 states for a record to be counted invalid
C4_Invalid(t) ==
    \/ \E f \in required_fields : f \notin DOMAIN t
    \/ /\ required_fields \subseteq DOMAIN t
       /\ \/ t.TransactionID = <<>> \/ Head(t.TransactionID) # "T"
          \/ t.ProductID = <<>> \/ Head(t.ProductID) # "P"
          \/ t.CustomerID = <<>> \/ Head(t.CustomerID) # "C"
          \/ t.Quantity <= 0
          \/ FLe(t.UnitPrice, 0)

\* C4: a record is counted invalid, once, exactly when it lacks a field,
\* has a wrong id prefix or a non-positive quantity or price; every other
\* record passes validation; invalid_count is summary.invalid; nothing
\* is raised.
C4_InvalidCounted ==
    pc = "analyse" =>
        /\ invalid_count =
               Cardinality({i \in 1..Len(transactions) : C4_Invalid(transactions[i])})
        /\ invalid_count = summary.invalid
        /\ error = "none"
        /\ \A i \in 1..Len(filtered_txns) : ~C4_Invalid(filtered_txns[i])
        /\ (~region.some /\ ~min_amount.some /\ ~max_amount.some) =>
               filtered_txns = SelectSeq(transactions, LAMBDA t : ~C4_Invalid(t))

C4_Witness ==
    /\ pc = "analyse"
    /\ invalid_count >= 2
    /\ Len(filtered_txns) >= 1
    /\ \E i \in 1..Len(transactions) : ~HasRequiredFields(transactions[i])

\* the condition C5 states for a validated record to be kept
C5_Keeps(t) ==
    /\ region.some => lower(t.Region) = region.v
    /\ min_amount.some => FLe(min_amount.v, Amount(t))
    /\ max_amount.some => FLe(Amount(t), max_amount.v)

\* C5: the returned collection is exactly the validated records that match
\* the region (lower-cased) and lie within the inclusive amount bounds, in
\* their order after validation; with no filter all validated records.
C5_FilterExact ==
    pc = "analyse" =>
        filtered_txns =
            SelectSeq(transactions, LAMBDA t : ~C4_Invalid(t) /\ C5_Keeps(t))

\* the summary for region "north" over 3 North and 2 South records
C6_Scenario ==
    validate_and_filter(<<TxnNorth, TxnSouth, TxnNorth, TxnSouth, TxnNorth>>,
                        Some(<<"n", "o", "r", "t", "h">>), None, None).filter_summary

\* C6: total_input is the input size, filtered_by_region the validated
\* records the region filter removed, filtered_by_amount the survivors of
\* the region filter the amount filter removed, and final_count =
\* total_input - invalid - filtered_by_region - filtered_by_amount is the
\* length of the returned collection.
C6_SummaryCounts ==
    pc = "analyse" =>
        LET valid == SelectSeq(transactions, LAMBDA t : ~C4_Invalid(t))
            inRegion(t) == region.some => lower(t.Region) = region.v
            survivors == SelectSeq(valid, inRegion)
        IN /\ summary.total_input = Len(transactions)
           /\ summary.filtered_by_region = Len(valid) - Len(survivors)
           /\ ~region.some => summary.filtered_by_region = 0
           /\ summary.filtered_by_amount = Len(survivors) - Len(filtered_txns)
           /\ (~min_amount.some /\ ~max_amount.some) =>
                  summary.filtered_by_amount = 0
           /\ summary.final_count =
                  summary.total_input - summary.invalid
                  - summary.filtered_by_region - summary.filtered_by_amount
           /\ summary.final_count = Len(filtered_txns)
           /\ C6_Scenario.filtered_by_region = 2
           /\ C6_Scenario.final_count = 3

C6_Witness ==
    /\ pc = "analyse"
    /\ summary.filtered_by_region >= 1
    /\ summary.filtered_by_amount >= 1
    /\ summary.final_count >= 1

\* sum of Quantity * UnitPrice over the records
RECURSIVE SumAmounts(_)
SumAmounts(txns) ==
    IF txns = <<>> THEN 0
    ELSE FAdd(Amount(Head(txns)), SumAmounts(Tail(txns)))

\* sum of Quantity
RECURSIVE SumQuantity(_)
SumQuantity(txns) ==
    IF txns = <<>> THEN 0 ELSE Head(txns).Quantity + SumQuantity(Tail(txns))

\* index of the first record of a date / of a region
FirstOfDate(txns, d) ==
    CHOOSE i \in 1..Len(txns) :
        txns[i].Date = d /\ \A j \in 1..(i - 1) : txns[j].Date # d

FirstOfRegion(txns, rg) ==
    CHOOSE i \in 1..Len(txns) :
        txns[i].Region = rg /\ \A j \in 1..(i - 1) : txns[j].Region # rg

OfDate(txns, d) == SelectSeq(txns, LAMBDA t : t.Date = d)
OfRegion(txns, rg) == SelectSeq(txns, LAMBDA t : t.Region = rg)
OfProduct(txns, nm) == SelectSeq(txns, LAMBDA t : t.ProductName = nm)

DateRevenue(txns, d) == SumAmounts(OfDate(txns, d))

Returned(call) == pc = "returned" /\ error = "none" /\ result.call = call

\* C7: find_peak_sales_day returns a date whose revenue is >= that of every
\* other date, with that date's (2-decimal) revenue and count; among tied
\* dates the first encountered; (None, 0.0, 0) for an empty collection.
C7_PeakIsFirstMax ==
    Returned("find_peak_sales_day") =>
        LET txns == filtered_txns
            r == result.value
        IN IF txns = <<>>
           THEN r = [date |-> None, revenue |-> 0, transaction_count |-> 0]
           ELSE /\ r.date.some
                /\ \A i \in 1..Len(txns) :
                      /\ FLe(DateRevenue(txns, txns[i].Date), DateRevenue(txns, r.date.v))
                      /\ DateRevenue(txns, txns[i].Date) = DateRevenue(txns, r.date.v)
                         => FirstOfDate(txns, r.date.v) <= i
                /\ r.revenue = Round2(DateRevenue(txns, r.date.v))
                /\ r.transaction_count = Len(OfDate(txns, r.date.v))

NamesQty(entries) == [i \in 1..Len(entries) |-> <<entries[i][1], entries[i][2]>>]

\* C8: on a non-empty collection the report's own region ranking, top-5
\* products, low performers and best selling day are those of
\* region_wise_sales, top_selling_products(5), low_performing_products(10)
\* and find_peak_sales_day.
C8_ReportAgreesWithEngine ==
    Returned("generate_sales_report") /\ filtered_txns # <<>> =>
        LET rep == result.value
            engineRegions == region_wise_sales(filtered_txns)
        IN /\ [i \in 1..Len(rep.region_summary) |-> rep.region_summary[i].region]
              = [i \in 1..Len(engineRegions) |-> engineRegions[i].region]
           /\ [i \in 1..Len(rep.top_products) |->
                  <<rep.top_products[i].name, rep.top_products[i].total_quantity>>]
              = NamesQty(top_selling_products(filtered_txns, 5))
           /\ [i \in 1..Len(rep.low_products) |->
                  <<rep.low_products[i].name, rep.low_products[i].total_quantity>>]
              = NamesQty(low_performing_products(filtered_txns, 10))
           /\ rep.peak_day = find_peak_sales_day(filtered_txns).date

\* C9: region_wise_sales has one entry per distinct region with the sum of
\* the amounts and the number of records of the region, ordered by
\* descending total_sales, equal totals in order of first encounter; empty
\* for an empty collection.
C9_RegionWiseSales ==
    Returned("region_wise_sales") =>
        LET txns == filtered_txns
            r == result.value
            first(rg) == FirstOfRegion(txns, rg)
        IN /\ {r[i].region : i \in 1..Len(r)} = {txns[i].Region : i \in 1..Len(txns)}
           /\ Len(r) = Cardinality({txns[i].Region : i \in 1..Len(txns)})
           /\ \A i \in 1..Len(r) :
                 /\ r[i].total_sales = SumAmounts(OfRegion(txns, r[i].region))
                 /\ r[i].transaction_count = Len(OfRegion(txns, r[i].region))
           /\ \A i, j \in 1..Len(r) :
                 i < j =>
                     /\ ~FLt(r[i].total_sales, r[j].total_sales)
                     /\ r[i].total_sales = r[j].total_sales
                        => first(r[i].region) < first(r[j].region)
           /\ txns = <<>> => r = <<>>

\* C10: top_selling_products(txns, n) returns min(n, distinct names)
\* entries (name, total quantity, total revenue to 2 decimals) in
\* non-increasing quantity; no omitted product has more quantity than a
\* returned one; with n >= distinct names every product appears once.
C10_TopSellingProducts ==
    Returned("top_selling_products") =>
        LET txns == filtered_txns
            n == result.arg
            r == result.value
            names == {txns[i].ProductName : i \in 1..Len(txns)}
            qty(nm) == SumQuantity(OfProduct(txns, nm))
            returned == {r[i][1] : i \in 1..Len(r)}
        IN /\ Len(r) = IF n < Cardinality(names) THEN n ELSE Cardinality(names)
           /\ Cardinality(returned) = Len(r)
           /\ returned \subseteq names
           /\ \A i \in 1..Len(r) :
                 /\ r[i][2] = qty(r[i][1])
                 /\ r[i][3] = Round2(SumAmounts(OfProduct(txns, r[i][1])))
           /\ \A i, j \in 1..Len(r) : i < j => r[i][2] >= r[j][2]
           /\ \A nm \in names \ returned : \A i \in 1..Len(r) : qty(nm) <= r[i][2]
           /\ n >= Cardinality(names) => returned = names

C10_Witness ==
    /\ Returned("top_selling_products")
    /\ result.arg = 2
    /\ Len(result.value) = 2
    /\ Cardinality({filtered_txns[i].ProductName : i \in 1..Len(filtered_txns)}) = 3
    /\ result.value[1][2] > result.value[2][2]

\* C11: low_performing_products(txns, threshold) returns exactly the
\* product names whose summed quantity is below threshold, each once with
\* its total, in non-decreasing total quantity; a product whose total is
\* >= threshold is absent even when one of its records is below threshold.
C11_LowPerformingProducts ==
    Returned("low_performing_products") =>
        LET txns == filtered_txns
            threshold == result.arg
            r == result.value
            names == {txns[i].ProductName : i \in 1..Len(txns)}
            qty(nm) == SumQuantity(OfProduct(txns, nm))
            returned == {r[i][1] : i \in 1..Len(r)}
        IN /\ returned = {nm \in names : qty(nm) < threshold}
           /\ Cardinality(returned) = Len(r)
           /\ \A i \in 1..Len(r) : r[i][2] = qty(r[i][1])
           /\ \A i, j \in 1..Len(r) : i < j => r[i][2] <= r[j][2]

C11_Witness ==
    /\ Returned("low_performing_products")
    /\ Len(result.value) >= 1
    /\ \E i \in 1..Len(filtered_txns) :
          /\ filtered_txns[i].Quantity < result.arg
          /\ SumQuantity(OfProduct(filtered_txns, filtered_txns[i].ProductName))
                 >= result.arg
          /\ \A k \in 1..Len(result.value) :
                result.value[k][1] # filtered_txns[i].ProductName

\* the call made was call, whether it returned or raised
Called(call) == pc = "returned" /\ result.call = call

\* C12: daily_sales_trend returns one entry per distinct Date with the
\* (2-decimal) sum of the date's amounts, the number of its records and the
\* number of its distinct customers (at most the number of records), in
\* ascending calendar order whatever the input order.
C12_DailySalesTrend ==
    Called("daily_sales_trend") =>
        /\ error = "none"
        /\ LET txns == filtered_txns
               r == result.value
               dates == {txns[i].Date : i \in 1..Len(txns)}
               customers(d) == {OfDate(txns, d)[i].CustomerID :
                                    i \in 1..Len(OfDate(txns, d))}
           IN /\ {r[i].date : i \in 1..Len(r)} = dates
              /\ Len(r) = Cardinality(dates)
              /\ \A i \in 1..Len(r) :
                    /\ r[i].revenue = Round2(DateRevenue(txns, r[i].date))
                    /\ r[i].transaction_count = Len(OfDate(txns, r[i].date))
                    /\ r[i].unique_customers = Cardinality(customers(r[i].date))
                    /\ r[i].unique_customers <= r[i].transaction_count
              /\ \A i, j \in 1..Len(r) :
                    i < j => DateOrdinal(r[i].date) < DateOrdinal(r[j].date)

OfCustomer(txns, c) == SelectSeq(txns, LAMBDA t : t.CustomerID = c)

\* sum of the purchase_count of the entries
RECURSIVE SumPurchaseCount(_)
SumPurchaseCount(entries) ==
    IF entries = <<>> THEN 0
    ELSE Head(entries).purchase_count + SumPurchaseCount(Tail(entries))

\* a is x / n to 2 decimals: a whole number of hundredths at most half a
\* hundredth away from x / n (nan when x is nan)
IsQuotient2(a, x, n) ==
    IF IsNaN(x) THEN IsNaN(a)
    ELSE /\ ~IsNaN(a)
         /\ a % 10 = 0
         /\ 2 * (a * n - x) <= 10 * n
         /\ 2 * (x - a * n) <= 10 * n

\* C13: customer_analysis returns one entry per distinct CustomerID with the
\* (2-decimal) sum of the customer's amounts, the number of the customer's
\* records, avg_order_value = total / count (2 decimals) and the customer's
\* distinct product names in ascending order without duplicates; entries
\* are in non-increasing total_spent and the counts sum to the number of
\* records.
C13_CustomerAnalysis ==
    Returned("customer_analysis") =>
        LET txns == filtered_txns
            r == result.value
            ids == {txns[i].CustomerID : i \in 1..Len(txns)}
            mine(c) == OfCustomer(txns, c)
            bought(c) == {mine(c)[i].ProductName : i \in 1..Len(mine(c))}
        IN /\ {r[i].customer_id : i \in 1..Len(r)} = ids
           /\ Len(r) = Cardinality(ids)
           /\ \A i \in 1..Len(r) :
                 LET c == r[i].customer_id
                     p == r[i].products_bought
                 IN /\ r[i].total_spent = Round2(SumAmounts(mine(c)))
                    /\ r[i].purchase_count = Len(mine(c))
                    /\ IsQuotient2(r[i].avg_order_value, SumAmounts(mine(c)),
                                   Len(mine(c)))
                    /\ {p[k] : k \in 1..Len(p)} = bought(c)
                    /\ Len(p) = Cardinality(bought(c))
                    /\ \A k, l \in 1..Len(p) : k < l => StrLess(p[k], p[l])
           /\ \A i, j \in 1..Len(r) :
                 i < j => ~FLt(r[i].total_spent, r[j].total_spent)
           /\ SumPurchaseCount(r) = Len(txns)

\* the condition C14 states for a record to match: its ProductID is "P"
\* followed by digits whose value is a key of the mapping
C14_Matches(txn, mapping) ==
    /\ "ProductID" \in DOMAIN txn
    /\ Len(txn.ProductID) >= 2
    /\ Head(txn.ProductID) = "P"
    /\ AllDigits(Tail(txn.ProductID))
    /\ \E k \in 1..Len(mapping) : mapping[k].key = Some(DecVal(Tail(txn.ProductID)))

\* C14: enrich_sales_data returns as many records as it was given, in the
\* same order and with the original fields unchanged, never raises, sets
\* API_Match with the category, brand and rating of the mapping exactly for
\* the records whose ProductID is "P" + digits naming a key, leaves
\* API_Match false and the API fields null otherwise, and does not modify
\* its input.
C14_EnrichSalesData ==
    enriched_transactions.some =>
        LET input == result.arg
            out == enriched_transactions.v
            mapping == product_map.v
        IN /\ error = "none"
           /\ Len(out) = Len(input)
           /\ filtered_txns = input
           /\ \A i \in 1..Len(out) :
                 /\ DOMAIN out[i] = DOMAIN input[i] \cup ApiFields
                 /\ \A f \in DOMAIN input[i] : out[i][f] = input[i][f]
                 /\ out[i].API_Match = C14_Matches(input[i], mapping)
                 /\ IF C14_Matches(input[i], mapping)
                    THEN \E k \in 1..Len(mapping) :
                            /\ mapping[k].key = Some(DecVal(Tail(input[i].ProductID)))
                            /\ out[i].API_Category = mapping[k].info.category
                            /\ out[i].API_Brand = mapping[k].info.brand
                            /\ out[i].API_Rating = mapping[k].info.rating
                    ELSE /\ out[i].API_Category = None
                         /\ out[i].API_Brand = None
                         /\ out[i].API_Rating = None

RECURSIVE SumTotalSales(_)
SumTotalSales(entries) ==
    IF entries = <<>> THEN 0
    ELSE FAdd(Head(entries).total_sales, SumTotalSales(Tail(entries)))

RECURSIVE SumPercentage(_)
SumPercentage(entries) ==
    IF entries = <<>> THEN 0
    ELSE Head(entries).percentage + SumPercentage(Tail(entries))

\* pct hundredths of a percent are at most half a hundredth away from
\* part / total * 100
C16_WithinHalf(pct, part, total) ==
    LET x == part * 100
        y == (x % total) * 100
        floor == (x \div total) * 100 + y \div total
        rest == y % total
    IN \/ pct = floor /\ 2 * rest <= total
       \/ pct = floor + 1 /\ 2 * rest >= total

AllAmountsPositive(txns) == \A i \in 1..Len(txns) : FGt(Amount(txns[i]), 0)

Rank(stage) ==
    CASE stage = "read" -> 1
      [] stage = "parse" -> 2
      [] stage = "ask" -> 3
      [] stage = "validate" -> 4
      [] stage = "analyse" -> 5
      [] stage = "fetch" -> 6
      [] stage = "mapping" -> 7
      [] stage = "enrich" -> 8
      [] stage = "report" -> 9
      [] OTHER -> 10

EmptyFetch == products.some /\ products.v = <<>>

\* C17: main runs its stages in the order read, parse, validate/filter,
\* aggregate, fetch, enrich (which saves the enriched data), report; after a
\* fetch that returned no products the run has ended without an exception
\* and without enriched records, enriched file or report; the report stage
\* is reached only after a non-empty fetch and a completed enrichment.
C17_StageOrder ==
    /\ [][Rank(pc') > Rank(pc)]_vars
    /\ [](EmptyFetch =>
            /\ pc = "done"
            /\ error = "none"
            /\ product_map = None
            /\ enriched_transactions = None
            /\ enriched_file = None
            /\ report = None)
    /\ [](enriched_file.some => enriched_transactions.some)
    /\ [](pc = "report" \/ report.some =>
            /\ products.some
            /\ products.v # <<>>
            /\ enriched_transactions.some)

C17_Witness ==
    /\ EmptyFetch
    /\ pc = "done"
    /\ filtered_txns # <<>>

\* an id of the record lacks its prefix letter
C18_PrefixMissing(t) ==
    \/ t.TransactionID = <<>> \/ Head(t.TransactionID) # "T"
    \/ t.ProductID = <<>> \/ Head(t.ProductID) # "P"
    \/ t.CustomerID = <<>> \/ Head(t.CustomerID) # "C"

\* C18: every record the parser emits has the eight required fields and is
\* not rejected by the validator's test "Quantity <= 0 or UnitPrice <= 0",
\* so validate_and_filter counts a parsed record invalid exactly when one of
\* its ids lacks the prefix letter; the line
\* "T1|2024-01-01|P101|Widget|5|10.0|C1|North" gives a record of amount
\* 50.0 that is parsed and, with no filter, kept by the validator.
C18_ParsedPassValidator ==
    pc = "analyse" =>
        /\ \A i \in 1..Len(transactions) :
              /\ required_fields \subseteq DOMAIN transactions[i]
              /\ transactions[i].Quantity > 0
              /\ ~FLe(transactions[i].UnitPrice, 0)
        /\ invalid_count =
               Cardinality({i \in 1..Len(transactions) :
                               C18_PrefixMissing(transactions[i])})
        /\ \A k \in 1..Len(raw_lines) :
              raw_lines[k] = LineGood =>
                  /\ \E i \in 1..Len(transactions) :
                        /\ transactions[i].TransactionID = <<"T", "1">>
                        /\ Amount(transactions[i]) = 50 * Scale
                  /\ (~region.some /\ ~min_amount.some /\ ~max_amount.some) =>
                        \E i \in 1..Len(filtered_txns) :
                            /\ filtered_txns[i].TransactionID = <<"T", "1">>
                            /\ Amount(filtered_txns[i]) = 50 * Scale

C18_Witness ==
    /\ pc = "analyse"
    /\ Len(transactions) = 2
    /\ invalid_count = 1
    /\ \E k \in 1..Len(raw_lines) : raw_lines[k] = LineGood
    /\ Len(filtered_txns) = 1
    /\ Amount(filtered_txns[1]) = 50 * Scale

=============================================================================
